---- MODULE Spec2Model ----
(***************************************************************************)
(* Model of the dovwms client library: the DOV soil-texture client         *)
(* (dovwms/dov.py), the Geopunt elevation client (dovwms/geopunt.py) and   *)
(* their common WMS base class (dovwms/base.py).                           *)
(*                                                                         *)
(* Python values are modelled as follows.                                  *)
(*   - a str used as a dict key is a sequence of tokens; the suffix        *)
(*     "_betrouwbaarheid" is one token, so that endswith() and the         *)
(*     f-string building the companion key are computed, not assumed;      *)
(*   - a dict that is iterated is a sequence of [key, value] entries in    *)
(*     insertion order, with no key twice;                                 *)
(*   - the text handed to the elevation parser is a sequence of            *)
(*     one-character strings;                                              *)
(*   - a float is the exact decimal [num, scale] = num / 10^scale, in      *)
(*     lowest terms of 10; the numbers of a texture payload are integers;  *)
(*   - None is the record None; a returned dict is a record with a type    *)
(*     field "dict".                                                       *)
(***************************************************************************)
EXTENDS Integers, Sequences, FiniteSets, TLC

VARIABLES
    data,       \* raw payload handed to the DOV parser
    content,    \* raw text handed to the Geopunt parser
    wms,        \* WMSClient._wms of each client
    ret         \* outcome of the last call: what it returned or raised, and
                \* the calls it made on the WMS library

vars == <<data, content, wms, ret>>

----------------------------------------------------------------------------
\* Bounds of the model

\* largest number of depth-band keys in the first feature of a payload
MaxKeys == 3
\* number of distinct valuations of a payload's numbers
NumSchemes == 2
\* longest elevation text enumerated character by character
MaxLen == 5

----------------------------------------------------------------------------
\* Python values

None == [type |-> "NoneType"]

Returned(v) == [outcome |-> "return", value |-> v]

Raised(e) == [outcome |-> "raise", exc |-> e]

\* the state before any call
NoCall == [op |-> "none"]

----------------------------------------------------------------------------
\* dict access on a sequence of [key, value] entries

HasKey(props, key) == \E i \in 1..Len(props) : props[i].key = key

Lookup(props, key) == props[CHOOSE i \in 1..Len(props) : props[i].key = key].value

----------------------------------------------------------------------------
\* DOVClient._parse_texture_response

Suffix == "_betrouwbaarheid"

EndsWithSuffix(k) == Len(k) > 0 /\ k[Len(k)] = Suffix

\* f"{depth_key}_betrouwbaarheid"
CiKey(depth_key) == depth_key \o <<Suffix>>

\* depth_mapping with the bounds of the second band taken from the first
depth_mapping_WrongBand ==
    <<"_0_-_10_cm">> :> <<0, 10, "Layer_0-10cm">> @@
    <<"_10_-_30_cm">> :> <<0, 10, "Layer_10-30cm">> @@
    <<"_30_-_60_cm">> :> <<30, 60, "Layer_30-60cm">> @@
    <<"_60_-_100_cm">> :> <<60, 100, "Layer_60-100cm">> @@
    <<"_100_-_150_cm">> :> <<100, 150, "Layer_100-150cm">>

depth_mapping ==
    <<"_0_-_10_cm">> :> <<0, 10, "Layer_0-10cm">> @@
    <<"_10_-_30_cm">> :> <<10, 30, "Layer_10-30cm">> @@
    <<"_30_-_60_cm">> :> <<30, 60, "Layer_30-60cm">> @@
    <<"_60_-_100_cm">> :> <<60, 100, "Layer_60-100cm">> @@
    <<"_100_-_150_cm">> :> <<100, 150, "Layer_100-150cm">>

ClaySource == "DOV WMS, bdbstat:fractie_klei_basisdata_bodemkartering"

SiltSource == "DOV WMS, bdbstat:fractie_leem_basisdata_bodemkartering"

SandSource == "DOV WMS, bdbstat:fractie_zand_basisdata_bodemkartering"

RECURSIVE KeysWithoutSuffix(_)
\* [k for k in props if not k.endswith("_betrouwbaarheid")]
KeysWithoutSuffix(props) ==
    IF props = <<>> THEN <<>>
    ELSE IF EndsWithSuffix(Head(props).key) THEN KeysWithoutSuffix(Tail(props))
    ELSE <<Head(props).key>> \o KeysWithoutSuffix(Tail(props))

\* the keys of ks that are in the sequence sorted, in its order
RECURSIVE InOrderOf(_, _)
InOrderOf(sorted, ks) ==
    IF sorted = <<>> THEN <<>>
    ELSE (IF \E i \in 1..Len(ks) : ks[i] = Head(sorted) THEN <<Head(sorted)>> ELSE <<>>)
         \o InOrderOf(Tail(sorted), ks)

\* depth_keys re-sorted by depth
DepthKeys_SortedByDepth(properties) ==
    InOrderOf(<< <<"_0_-_10_cm">>, <<"_10_-_30_cm">>, <<"_30_-_60_cm">>, <<"_60_-_100_cm">>,
                 <<"_100_-_150_cm">>, <<"_150_-_200_cm">> >>,
              KeysWithoutSuffix(properties[1]))

\* depth_keys, read from properties[0]
DepthKeys(properties) == KeysWithoutSuffix(properties[1])

\* the loop body reading the sand fraction from feature 0 instead of feature 2
LayerFor_SandFromClay(properties, depth_key) ==
    LET ci_key == CiKey(depth_key)
        n == Len(properties)
    IN  IF ~HasKey(properties[1], depth_key) THEN Raised("KeyError")
        ELSE IF ~HasKey(properties[1], ci_key) THEN Raised("KeyError")
        ELSE IF n < 2 THEN Raised("IndexError")
        ELSE IF ~HasKey(properties[2], depth_key) THEN Raised("KeyError")
        ELSE IF ~HasKey(properties[2], ci_key) THEN Raised("KeyError")
        ELSE IF n < 3 THEN Raised("IndexError")
        ELSE IF ~HasKey(properties[3], depth_key) THEN Raised("KeyError")
        ELSE IF ~HasKey(properties[3], ci_key) THEN Raised("KeyError")
        ELSE IF depth_key \notin DOMAIN depth_mapping THEN Raised("KeyError")
        ELSE Returned(
            [name |-> depth_mapping[depth_key][3],
             layer_top |-> depth_mapping[depth_key][1],
             layer_bottom |-> depth_mapping[depth_key][2],
             sand_content |-> Lookup(properties[1], depth_key),
             silt_content |-> Lookup(properties[2], depth_key),
             clay_content |-> Lookup(properties[1], depth_key),
             metadata |->
                [sand_content |-> [source |-> SandSource,
                                   uncertainty |-> Lookup(properties[3], ci_key)],
                 silt_content |-> [source |-> SiltSource,
                                   uncertainty |-> Lookup(properties[2], ci_key)],
                 clay_content |-> [source |-> ClaySource,
                                   uncertainty |-> Lookup(properties[1], ci_key)]]])

\* One pass of the loop body for depth_key: the layer built, or the first
\* exception raised, in the order of the statements.  properties is the
\* 1-based list of the features' property dicts (feature index i is
\* properties[i + 1]).
LayerFor(properties, depth_key) ==
    LET ci_key == CiKey(depth_key)
        n == Len(properties)
    IN  IF ~HasKey(properties[1], depth_key) THEN Raised("KeyError")
        ELSE IF ~HasKey(properties[1], ci_key) THEN Raised("KeyError")
        ELSE IF n < 2 THEN Raised("IndexError")
        ELSE IF ~HasKey(properties[2], depth_key) THEN Raised("KeyError")
        ELSE IF ~HasKey(properties[2], ci_key) THEN Raised("KeyError")
        ELSE IF n < 3 THEN Raised("IndexError")
        ELSE IF ~HasKey(properties[3], depth_key) THEN Raised("KeyError")
        ELSE IF ~HasKey(properties[3], ci_key) THEN Raised("KeyError")
        ELSE IF depth_key \notin DOMAIN depth_mapping THEN Raised("KeyError")
        ELSE Returned(
            [name |-> depth_mapping[depth_key][3],
             layer_top |-> depth_mapping[depth_key][1],
             layer_bottom |-> depth_mapping[depth_key][2],
             sand_content |-> Lookup(properties[3], depth_key),
             silt_content |-> Lookup(properties[2], depth_key),
             clay_content |-> Lookup(properties[1], depth_key),
             metadata |->
                [sand_content |-> [source |-> SandSource,
                                   uncertainty |-> Lookup(properties[3], ci_key)],
                 silt_content |-> [source |-> SiltSource,
                                   uncertainty |-> Lookup(properties[2], ci_key)],
                 clay_content |-> [source |-> ClaySource,
                                   uncertainty |-> Lookup(properties[1], ci_key)]]])

RECURSIVE BuildLayers_SkipOnError(_, _, _)
\* the loop dropping a key whose pass raised, instead of failing
BuildLayers_SkipOnError(properties, depth_keys, layers) ==
    IF depth_keys = <<>> THEN Returned(layers)
    ELSE LET r == LayerFor(properties, Head(depth_keys))
         IN BuildLayers_SkipOnError(properties, Tail(depth_keys),
                IF r.outcome = "raise" THEN layers ELSE Append(layers, r.value))

RECURSIVE BuildLayers(_, _, _)
\* for depth_key in depth_keys: ... layers.append(layer)
BuildLayers(properties, depth_keys, layers) ==
    IF depth_keys = <<>> THEN Returned(layers)
    ELSE LET r == LayerFor(properties, Head(depth_keys))
         IN IF r.outcome = "raise" THEN r
            ELSE BuildLayers(properties, Tail(depth_keys), Append(layers, r.value))

Profile(layers) == [type |-> "dict", layers |-> layers]

\* the parser without the early return for an empty feature list
ParseTextureResponse_NoEmptyCheck(d) ==
    IF d.json = "malformed" THEN Raised("JSONDecodeError")
    ELSE LET features == IF d.has_features THEN d.features ELSE <<>>
         IN IF features = <<>> THEN Raised("IndexError")
            ELSE LET r == BuildLayers(features, DepthKeys(features), <<>>)
                 IN IF r.outcome = "raise" THEN r
                    ELSE Returned(Profile(r.value))

\* d is what json.loads sees: [json |-> "malformed"], or a JSON object with
\* or without a "features" member.
ParseTextureResponse(d) ==
    IF d.json = "malformed" THEN Raised("JSONDecodeError")
    ELSE LET features == IF d.has_features THEN d.features ELSE <<>>
         IN IF features = <<>> THEN Returned(Profile(<<>>))
            ELSE LET r == BuildLayers(features, DepthKeys(features), <<>>)
                 IN IF r.outcome = "raise" THEN r
                    ELSE Returned(Profile(r.value))

\* DOVClient.parse_feature_info
DOVParseFeatureInfo(c, content_type, query_type) ==
    IF content_type = "application/json" /\ query_type = "texture"
    THEN ParseTextureResponse(c)
    ELSE Returned([type |-> "dict", content |-> c])

----------------------------------------------------------------------------
\* Texture payloads the parser is applied to

\* the five mapped depth bands and one the mapping does not know
KnownBands == {"_0_-_10_cm", "_10_-_30_cm", "_30_-_60_cm", "_60_-_100_cm", "_100_-_150_cm"}

UnknownBand == "_150_-_200_cm"

PayloadBands == KnownBands \cup {UnknownBand}

BandNo(b) ==
    CASE b = "_0_-_10_cm" -> 1
      [] b = "_10_-_30_cm" -> 2
      [] b = "_30_-_60_cm" -> 3
      [] b = "_60_-_100_cm" -> 4
      [] b = "_100_-_150_cm" -> 5
      [] OTHER -> 6

\* the number stored under band b (ci: under its companion key) in feature
\* index f by valuation s; distinct for distinct (f, b, ci)
NumberAt(s, f, b, ci) == 1000 * (s - 1) + 100 * f + 10 * BandNo(b) + (IF ci THEN 1 ELSE 0)

\* sequences of distinct bands, of length at most MaxKeys
BandOrders ==
    UNION {{o \in [1..n -> PayloadBands] : \A i, j \in 1..n : i # j => o[i] # o[j]} : n \in 0..MaxKeys}

Layouts == {"after", "interleaved"}

RECURSIVE Entries(_, _, _, _, _, _)
\* the property dict of feature index f: for layout "interleaved" each band
\* is followed by its companion; omit is an entry <<f, i, ci>> left out
Entries(s, f, order, i, omit, layout) ==
    IF i > Len(order) THEN <<>>
    ELSE LET b == order[i]
             v == IF omit = <<f, i, FALSE>> THEN <<>>
                  ELSE <<[key |-> <<b>>, value |-> NumberAt(s, f, b, FALSE)]>>
             u == IF omit = <<f, i, TRUE>> \/ layout = "after" THEN <<>>
                  ELSE <<[key |-> CiKey(<<b>>), value |-> NumberAt(s, f, b, TRUE)]>>
         IN v \o u \o Entries(s, f, order, i + 1, omit, layout)

RECURSIVE Companions(_, _, _, _, _)
\* the companion entries of layout "after"
Companions(s, f, order, i, omit) ==
    IF i > Len(order) THEN <<>>
    ELSE (IF omit = <<f, i, TRUE>> THEN <<>>
          ELSE <<[key |-> CiKey(<<order[i]>>), value |-> NumberAt(s, f, order[i], TRUE)]>>)
         \o Companions(s, f, order, i + 1, omit)

Properties(s, f, order, omit, layout) ==
    Entries(s, f, order, 1, omit, layout)
    \o (IF layout = "after" THEN Companions(s, f, order, 1, omit) ELSE <<>>)

NoOmit == <<3, 0, FALSE>>

Omits(order) == {NoOmit} \cup {<<f, i, ci>> : f \in 0..2, i \in 1..Len(order), ci \in BOOLEAN}

Payload(s, nfeat, order, omit, layout) ==
    [json |-> "ok", has_features |-> TRUE,
     features |-> [f \in 1..nfeat |-> Properties(s, f - 1, order, omit, layout)]]

\* d is a payload of the model: three features with at most one entry left
\* out, in either layout; fewer than three features; no "features" member;
\* text that is not JSON
IsTexturePayload(d) ==
    \/ \E s \in 1..NumSchemes, order \in BandOrders, layout \in Layouts :
          \E omit \in Omits(order) : d = Payload(s, 3, order, omit, layout)
    \/ \E s \in 1..NumSchemes, nfeat \in 0..2, order \in BandOrders :
          d = Payload(s, nfeat, order, NoOmit, "after")
    \/ d = [json |-> "ok", has_features |-> FALSE, features |-> <<>>]
    \/ d = [json |-> "malformed"]

----------------------------------------------------------------------------
\* GeopuntClient._parse_elevation_response

\* the whitespace of the texts of the model
IsSpace(c) == c = " "

IsDigit(c) == c \in {"0", "1", "2", "3", "4", "5", "6", "7", "8", "9"}

DigitValue(c) ==
    CASE c = "0" -> 0 [] c = "1" -> 1 [] c = "2" -> 2 [] c = "3" -> 3 [] c = "4" -> 4
      [] c = "5" -> 5 [] c = "6" -> 6 [] c = "7" -> 7 [] c = "8" -> 8 [] c = "9" -> 9

RECURSIVE LStrip(_)
LStrip(s) == IF s # <<>> /\ IsSpace(Head(s)) THEN LStrip(Tail(s)) ELSE s

RECURSIVE RStrip(_)
RStrip(s) == IF s # <<>> /\ IsSpace(s[Len(s)]) THEN RStrip(SubSeq(s, 1, Len(s) - 1)) ELSE s

\* str.strip()
Strip(s) == RStrip(LStrip(s))

RECURSIVE SplitFrom(_, _)
\* str.split(";"): field is the part of the current field already read
SplitFrom(s, field) ==
    IF s = <<>> THEN <<field>>
    ELSE IF Head(s) = ";" THEN <<field>> \o SplitFrom(Tail(s), <<>>)
    ELSE SplitFrom(Tail(s), Append(field, Head(s)))

Split(s) == SplitFrom(s, <<>>)

RECURSIVE ScanDigits(_, _, _)
\* reads the digits s starts with: their value, their number, what follows
ScanDigits(s, acc, n) ==
    IF s # <<>> /\ IsDigit(Head(s)) THEN ScanDigits(Tail(s), 10 * acc + DigitValue(Head(s)), n + 1)
    ELSE [num |-> acc, n |-> n, rest |-> s]

RECURSIVE Normalize(_, _)
\* num / 10^scale without trailing zeros of the fraction
Normalize(num, scale) ==
    IF scale > 0 /\ num % 10 = 0 THEN Normalize(num \div 10, scale - 1)
    ELSE [type |-> "float", num |-> num, scale |-> scale]

RECURSIVE Pow10(_)
Pow10(n) == IF n = 0 THEN 1 ELSE 10 * Pow10(n - 1)

\* the digits after a point, if rest starts with one
FractionOf(rest) ==
    IF rest # <<>> /\ Head(rest) = "." THEN ScanDigits(Tail(rest), 0, 0)
    ELSE [num |-> 0, n |-> 0, rest |-> rest]

\* the number of sign, integer digits int and fraction digits frac; a
\* ValueError when something follows them or there is no digit at all
FloatOfDigits(sign, int, frac) ==
    IF frac.rest # <<>> \/ int.n + frac.n = 0 THEN Raised("ValueError")
    ELSE Returned(Normalize(sign * (int.num * Pow10(frac.n) + frac.num), frac.n))

FloatAfterInteger(sign, int) == FloatOfDigits(sign, int, FractionOf(int.rest))

FloatUnsigned(sign, body) == FloatAfterInteger(sign, ScanDigits(body, 0, 0))

FloatStripped(t) ==
    IF t # <<>> /\ Head(t) = "-" THEN FloatUnsigned(-1, Tail(t))
    ELSE IF t # <<>> /\ Head(t) = "+" THEN FloatUnsigned(1, Tail(t))
    ELSE FloatUnsigned(1, t)

\* float(s) for a text s that has no exponent and no underscore and does not
\* spell inf or nan: surrounding whitespace, an optional sign, digits with at
\* most one point and at least one digit; anything else is a ValueError
Float(s) == FloatStripped(Strip(s))

\* except (ValueError, IndexError): ... return None
ExceptValueError(r) ==
    IF r.outcome = "raise" /\ r.exc \in {"ValueError", "IndexError"} THEN Returned(None) ELSE r

\* the statements after the split, taking the second field instead of the
\* third
ThirdValue_SecondField(values) ==
    IF Len(values) >= 3 THEN ExceptValueError(Float(Strip(values[2]))) ELSE Returned(None)

\* the statements after the split, without the except clause
ThirdValue_Uncaught(values) ==
    IF Len(values) >= 3 THEN Float(Strip(values[3])) ELSE Returned(None)

\* if len(values) >= 3: return float(values[2].strip()); values[2] of the
\* code is values[3] here (sequences start at 1)
ThirdValue(values) ==
    IF Len(values) >= 3 THEN ExceptValueError(Float(Strip(values[3]))) ELSE Returned(None)

ParseElevationResponse(c) == ThirdValue(Split(Strip(c)))

\* return {"elevation": elevation}
ElevationDict(r) ==
    IF r.outcome = "raise" THEN r ELSE Returned([type |-> "dict", elevation |-> r.value])

\* GeopuntClient.parse_feature_info
GeopuntParseFeatureInfo(c, query_type) ==
    IF query_type = "elevation" THEN ElevationDict(ParseElevationResponse(c))
    ELSE Returned([type |-> "dict", content |-> c])

----------------------------------------------------------------------------
\* Elevation texts the parser is applied to

Alphabet == {"3", "2", ".", "-", " ", ";", "g"}

\* the response of the docstring: "@DHMVII_DTM_1m Stretched value;Pixel Value; 32.360001;32.360001;"
DocExample ==
    <<"@", "D", "H", "M", "V", "I", "I", "_", "D", "T", "M", "_", "1", "m", " ",
      "S", "t", "r", "e", "t", "c", "h", "e", "d", " ", "v", "a", "l", "u", "e", ";",
      "P", "i", "x", "e", "l", " ", "V", "a", "l", "u", "e", ";",
      " ", "3", "2", ".", "3", "6", "0", "0", "0", "1", ";",
      "3", "2", ".", "3", "6", "0", "0", "0", "1", ";">>

Garbage == <<"g", "a", "r", "b", "a", "g", "e">>

\* every text over Alphabet of length at most MaxLen, and the two examples
Texts == UNION {[1..n -> Alphabet] : n \in 0..MaxLen} \cup {DocExample, Garbage}

----------------------------------------------------------------------------
\* The clients and the WMS library they call

Clients == {"dov", "geopunt"}

\* DOVClient.fetch_profile: wms_layers
wms_layers ==
    <<"bdbstat:fractie_klei_basisdata_bodemkartering",
      "bdbstat:fractie_leem_basisdata_bodemkartering",
      "bdbstat:fractie_zand_basisdata_bodemkartering">>

\* default layer_name of fetch_elevation and get_elevation
DefaultElevationLayer == "DHMVII_DTM_1m"

\* the layers a service of the model may advertise
LayersOf(c) ==
    IF c = "dov" THEN {wms_layers[i] : i \in 1..Len(wms_layers)} ELSE {DefaultElevationLayer}

\* a WebMapService object: its contents, and whether it was handed to the
\* client through the wms setter
Service(contents, injected) ==
    [type |-> "WebMapService", contents |-> contents, injected |-> injected]

\* what WebMapService(url, version) answers: it raises, or it is a service
ConnectError == [type |-> "error"]

ConnectAnswers(c) == {ConnectError} \cup {Service(l, FALSE) : l \in SUBSET LayersOf(c)}

\* the calls a client makes on the WMS library and on get_elevation
Call(fn, c) == [fn |-> fn, client |-> c]

\* the getter connecting on every access, whatever self._wms holds
WmsGetter_AlwaysConnect(c, conn, answer) ==
    IF answer = ConnectError
    THEN [res |-> Raised("ConnectError"), conn |-> conn, calls |-> <<Call("WebMapService", c)>>]
    ELSE [res |-> Returned(answer), conn |-> answer, calls |-> <<Call("WebMapService", c)>>]

\* WMSClient.wms (getter) with WMSClient.connect_wms: conn is self._wms,
\* answer is what the constructor of WebMapService does if it is called
WmsGetter(c, conn, answer) ==
    IF conn = None
    THEN IF answer = ConnectError
         THEN [res |-> Raised("ConnectError"), conn |-> None, calls |-> <<Call("WebMapService", c)>>]
         ELSE [res |-> Returned(answer), conn |-> answer, calls |-> <<Call("WebMapService", c)>>]
    ELSE [res |-> Returned(conn), conn |-> conn, calls |-> <<>>]

\* layer_name in <the service w.res.value>.contents
HasLayer(w, layer_name) ==
    IF w.res.outcome = "raise" THEN w
    ELSE [res |-> Returned(layer_name \in w.res.value.contents), conn |-> w.conn, calls |-> w.calls]

\* WMSClient.check_layer_exists
CheckLayerExists(c, conn, answer, layer_name) == HasLayer(WmsGetter(c, conn, answer), layer_name)

\* the names of the layers of <the service w.res.value>.contents
LayerNames(w) ==
    IF w.res.outcome = "raise" THEN w
    ELSE [res |-> Returned(w.res.value.contents), conn |-> w.conn, calls |-> w.calls]

\* WMSClient.list_wms_layers without a filter
ListWmsLayers(c, conn, answer) == LayerNames(WmsGetter(c, conn, answer))

----------------------------------------------------------------------------
\* GeopuntClient.fetch_elevation and get_elevation

\* except Exception: ... return None
ExceptException(r) == IF r.outcome = "raise" THEN Returned(None) ELSE r

\* The try statement of fetch_elevation.  env is what the elevation service
\* does during the call: connect (see WmsGetter), gfi and read and decode
\* ("ok" or "raise"), and text, the decoded response.
ElevationQuery(env) ==
    IF env.gfi = "raise" \/ env.read = "raise" \/ env.decode = "raise" THEN Returned(None)
    ELSE ExceptException(GeopuntParseFeatureInfo(env.text, "elevation"))

\* fetch_elevation querying the service without looking at the outcome of
\* check_layer_exists
FetchElevationChecked_NoLayerCheck(c, chk, env) ==
    IF chk.res.outcome = "raise" THEN chk
    ELSE [res |-> ElevationQuery(env), conn |-> chk.conn,
          calls |-> chk.calls \o <<Call("getfeatureinfo", c)>>]

\* fetch_elevation after check_layer_exists, whose outcome is chk
FetchElevationChecked(c, chk, env) ==
    IF chk.res.outcome = "raise" THEN chk
    ELSE IF ~chk.res.value THEN [res |-> Returned(None), conn |-> chk.conn, calls |-> chk.calls]
    ELSE [res |-> ElevationQuery(env), conn |-> chk.conn,
          calls |-> chk.calls \o <<Call("getfeatureinfo", c)>>]

GeopuntFetchElevation(c, conn, layer_name, env) ==
    FetchElevationChecked(c, CheckLayerExists(c, conn, env.connect, layer_name), env)

\* the client of get_elevation is dropped after the call
WithoutClient(f) == [res |-> f.res, calls |-> f.calls]

\* get_elevation: a new GeopuntClient, used once
GetElevation(env) ==
    WithoutClient(GeopuntFetchElevation("get_elevation", None, DefaultElevationLayer, env))

----------------------------------------------------------------------------
\* DOVClient.fetch_profile

NotReached == [outcome |-> "not reached"]

\* what a call has done when it ends before the try statement
Ended(res, conn, calls) ==
    [res |-> res, conn |-> conn, calls |-> calls, texture |-> NotReached, elevation |-> NotReached]

RECURSIVE CheckLayers(_, _, _, _, _)

\* the loop accepting the service as soon as one required layer exists
CheckedLayer_Any(c, answer, layers, calls, chk) ==
    IF chk.res.outcome = "raise" THEN [chk EXCEPT !.calls = calls \o chk.calls]
    ELSE IF chk.res.value \/ Len(layers) = 1
    THEN [chk EXCEPT !.calls = calls \o chk.calls]
    ELSE CheckLayers(c, chk.conn, answer, Tail(layers), calls \o chk.calls)

\* if not self.check_layer_exists(layer_name): return None; chk is the
\* outcome of check_layer_exists for Head(layers)
CheckedLayer(c, answer, layers, calls, chk) ==
    IF chk.res.outcome = "raise" \/ ~chk.res.value THEN [chk EXCEPT !.calls = calls \o chk.calls]
    ELSE CheckLayers(c, chk.conn, answer, Tail(layers), calls \o chk.calls)

\* for layer_name in wms_layers: ...  Returned(TRUE) when the loop runs to
\* its end, Returned(FALSE) when it returns None.
CheckLayers(c, conn, answer, layers, calls) ==
    IF layers = <<>> THEN [res |-> Returned(TRUE), conn |-> conn, calls |-> calls]
    ELSE CheckedLayer(c, answer, layers, calls, CheckLayerExists(c, conn, answer, Head(layers)))

\* result["elevation"] = elevation; elevation is what get_elevation did
TryElevation(conn, calls, result, elevation) ==
    [res |-> IF elevation.res.outcome = "raise" THEN elevation.res
             ELSE Returned([type |-> "dict", layers |-> result.value.layers,
                            elevation |-> elevation.res.value]),
     conn |-> conn, calls |-> calls \o elevation.calls,
     texture |-> result, elevation |-> elevation.res]

\* if fetch_elevation: ...; result is what parse_feature_info did
TryParsed(conn, calls, result, fetch_elevation, env) ==
    IF result.outcome = "raise" \/ ~fetch_elevation
    THEN [res |-> result, conn |-> conn, calls |-> calls,
          texture |-> result, elevation |-> NotReached]
    ELSE TryElevation(conn, calls \o <<Call("get_elevation", "dov")>>, result,
                      GetElevation(env.elevation))

\* the query issued a second time when the first one fails
TryQuery_RetryOnce(w, fetch_elevation, env) ==
    IF w.res.outcome = "raise" THEN Ended(w.res, w.conn, w.calls)
    ELSE IF env.gfi = "raise" \/ env.read = "raise"
    THEN Ended(Raised("Exception"), w.conn,
               w.calls \o <<Call("getfeatureinfo", "dov"), Call("getfeatureinfo", "dov")>>)
    ELSE TryParsed(w.conn, w.calls \o <<Call("getfeatureinfo", "dov")>>,
                   DOVParseFeatureInfo(env.payload, "application/json", "texture"),
                   fetch_elevation, env)

\* self.wms.getfeatureinfo(...), response.read() and parse_feature_info; w is
\* what self.wms did
TryQuery(w, fetch_elevation, env) ==
    IF w.res.outcome = "raise" THEN Ended(w.res, w.conn, w.calls)
    ELSE IF env.gfi = "raise" \/ env.read = "raise"
    THEN Ended(Raised("Exception"), w.conn, w.calls \o <<Call("getfeatureinfo", "dov")>>)
    ELSE TryParsed(w.conn, w.calls \o <<Call("getfeatureinfo", "dov")>>,
                   DOVParseFeatureInfo(env.payload, "application/json", "texture"),
                   fetch_elevation, env)

\* The body of the try statement.  env is what the soil service does during
\* the call (connect, gfi, read, and payload, the response read) and
\* env.elevation what the elevation service does.  texture and elevation
\* record what parse_feature_info and get_elevation did.
TryBlock(conn, fetch_elevation, env) ==
    TryQuery(WmsGetter("dov", conn, env.connect), fetch_elevation, env)

\* the try statement without its except clause
Try_Uncaught(calls, try) == [try EXCEPT !.calls = calls \o try.calls]

\* try: ... except Exception: return None; else: return result
Try(calls, try) ==
    [try EXCEPT !.calls = calls \o try.calls, !.res = ExceptException(try.res)]

\* fetch_profile after the loop over wms_layers, whose outcome is chk
FetchProfileChecked(chk, fetch_elevation, env) ==
    IF chk.res.outcome = "raise" THEN Ended(chk.res, chk.conn, chk.calls)
    ELSE IF ~chk.res.value THEN Ended(Returned(None), chk.conn, chk.calls)
    ELSE Try(chk.calls, TryBlock(chk.conn, fetch_elevation, env))

FetchProfile(conn, fetch_elevation, env) ==
    FetchProfileChecked(CheckLayers("dov", conn, env.connect, wms_layers, <<>>),
                        fetch_elevation, env)

----------------------------------------------------------------------------
\* get_profile_from_dov

\* Point(x, y)
Point(x, y) == [type |-> "Point", x |-> x, y |-> y]

\* the arguments of client.fetch_profile(location, fetch_elevation=..., crs=...)
FetchProfileArgs(location, fetch_elevation, crs) ==
    [location |-> location, fetch_elevation |-> fetch_elevation, crs |-> crs]

\* the try statement without its except clause
GetProfileTry_Uncaught(args, f) ==
    [res |-> f.res, args |-> args, profile |-> f.res, calls |-> f.calls,
     texture |-> f.texture, elevation |-> f.elevation]

\* try: ... except Exception: return None; else: return profile.  f is what
\* fetch_profile did when called with args; profile records its outcome.
GetProfileTry(args, f) ==
    [res |-> ExceptException(f.res), args |-> args, profile |-> f.res, calls |-> f.calls,
     texture |-> f.texture, elevation |-> f.elevation]

\* get_profile_from_dov: a new DOVClient, used once.  client is what
\* DOVClient() does ("ok" or "raise"), env what the services do.
GetProfileFromDov(x, y, crs, fetch_elevation, client, env) ==
    IF client = "raise"
    THEN [res |-> Returned(None), args |-> NotReached, profile |-> NotReached, calls |-> <<>>,
          texture |-> NotReached, elevation |-> NotReached]
    ELSE GetProfileTry(FetchProfileArgs(Point(x, y), fetch_elevation, crs),
                       FetchProfile(None, fetch_elevation, env))

----------------------------------------------------------------------------
\* Specification of the DOV parser: a payload is drawn, and the parser is
\* applied to it directly or through parse_feature_info.

ContentTypes == {"application/json", "text/plain"}

QueryTypes == {"texture", "properties"}

InitTexture ==
    /\ IsTexturePayload(data)
    /\ content = <<>>
    /\ wms = [c \in Clients |-> None]
    /\ ret = NoCall

CallParseTextureResponse ==
    /\ ret' = [op |-> "_parse_texture_response", res |-> ParseTextureResponse(data)]
    /\ UNCHANGED <<data, content, wms>>

CallDOVParseFeatureInfo ==
    \E ct \in ContentTypes, qt \in QueryTypes :
        /\ ret' = [op |-> "parse_feature_info", content_type |-> ct, query_type |-> qt,
                   res |-> DOVParseFeatureInfo(data, ct, qt)]
        /\ UNCHANGED <<data, content, wms>>

NextTexture == CallParseTextureResponse \/ CallDOVParseFeatureInfo

SpecTexture == InitTexture /\ [][NextTexture]_vars

----------------------------------------------------------------------------
\* Specification of the clients: calls on a DOV client and a Geopunt client
\* in any order, against services that answer in every way.

\* responses of the soil service: two bands; a band without its companion
\* on the sand feature; a band the mapping does not know; no features; text
\* that is not JSON
TextureResponses ==
    {Payload(1, 3, <<"_10_-_30_cm", "_0_-_10_cm">>, NoOmit, "after"),
     Payload(1, 3, <<"_0_-_10_cm">>, <<2, 1, TRUE>>, "after"),
     Payload(1, 3, <<UnknownBand>>, NoOmit, "after"),
     Payload(1, 0, <<>>, NoOmit, "after"),
     [json |-> "malformed"]}

\* responses of the elevation service
ElevationResponses == {DocExample, Garbage, <<";", ";">>}

\* what the elevation service does after the connection: the query, the
\* read or the decoding raises, or a text is decoded
ElevationOutcomes ==
    {[gfi |-> o[1], read |-> o[2], decode |-> o[3], text |-> Garbage] :
        o \in {<<"raise", "ok", "ok">>, <<"ok", "raise", "ok">>, <<"ok", "ok", "raise">>}}
    \cup {[gfi |-> "ok", read |-> "ok", decode |-> "ok", text |-> t] : t \in ElevationResponses}

\* what the elevation service does during one call on a client
ElevationEnvs ==
    {[connect |-> a, gfi |-> o.gfi, read |-> o.read, decode |-> o.decode, text |-> o.text] :
        a \in ConnectAnswers("geopunt"), o \in ElevationOutcomes}

\* the same for a new client: nothing is asked of a service that cannot be
\* connected or lacks the layer
FreshElevationEnvs ==
    {e \in ElevationEnvs :
        e.connect \in {ConnectError, Service({}, FALSE)}
            => (e.gfi = "raise" /\ e.read = "ok" /\ e.decode = "ok")}

QuietElevation ==
    [connect |-> ConnectError, gfi |-> "ok", read |-> "ok", decode |-> "ok", text |-> Garbage]

\* what the two services do during one call of fetch_profile; the elevation
\* service is only described when it is asked
ProfileEnvs(fetch_elevation) ==
    {[connect |-> a, gfi |-> o[1], read |-> o[2], payload |-> [json |-> "malformed"],
      elevation |-> QuietElevation] :
        a \in ConnectAnswers("dov"), o \in {<<"raise", "ok">>, <<"ok", "raise">>}}
    \cup {[connect |-> a, gfi |-> "ok", read |-> "ok", payload |-> p, elevation |-> e] :
        a \in ConnectAnswers("dov"), p \in TextureResponses,
        e \in IF fetch_elevation THEN FreshElevationEnvs ELSE {QuietElevation}}

\* the answer of the constructor matters only to a client without connection
Asked(c, answer) == wms[c] # None => answer = ConnectError

Init ==
    /\ data = [json |-> "malformed"]
    /\ content = <<>>
    /\ wms = [c \in Clients |-> None]
    /\ ret = NoCall

\* the call has ended: r.conn is the client's connection, and call with the
\* rest of r is kept as the outcome
Finish(c, call, r) ==
    /\ wms' = [wms EXCEPT ![c] = r.conn]
    /\ ret' = call @@ [f \in DOMAIN r \ {"conn"} |-> r[f]]
    /\ UNCHANGED <<data, content>>

\* client.wms = value
SetWms(c) ==
    \E contents \in SUBSET LayersOf(c) :
        /\ wms' = [wms EXCEPT ![c] = Service(contents, TRUE)]
        /\ ret' = [op |-> "wms.setter", client |-> c]
        /\ UNCHANGED <<data, content>>

\* client.wms
GetWms(c) ==
    \E answer \in ConnectAnswers(c) :
        /\ Asked(c, answer)
        /\ Finish(c, [op |-> "wms", client |-> c], WmsGetter(c, wms[c], answer))

CallListWmsLayers(c) ==
    \E answer \in ConnectAnswers(c) :
        /\ Asked(c, answer)
        /\ Finish(c, [op |-> "list_wms_layers", client |-> c], ListWmsLayers(c, wms[c], answer))

CallCheckLayerExists(c) ==
    \E answer \in ConnectAnswers(c), layer_name \in LayersOf(c) :
        /\ Asked(c, answer)
        /\ Finish(c, [op |-> "check_layer_exists", client |-> c, layer_name |-> layer_name],
                  CheckLayerExists(c, wms[c], answer, layer_name))

CallFetchProfile ==
    \E fetch_elevation \in BOOLEAN :
        \E env \in ProfileEnvs(fetch_elevation) :
            /\ Asked("dov", env.connect)
            /\ Finish("dov",
                      [op |-> "fetch_profile", client |-> "dov",
                       fetch_elevation |-> fetch_elevation, env |-> env],
                      FetchProfile(wms["dov"], fetch_elevation, env))

CallFetchElevation ==
    \E env \in ElevationEnvs, layer_name \in {DefaultElevationLayer, "DHMVII_DSM_1m"} :
        /\ Asked("geopunt", env.connect)
        /\ Finish("geopunt",
                  [op |-> "fetch_elevation", client |-> "geopunt", layer_name |-> layer_name,
                   env |-> env],
                  GeopuntFetchElevation("geopunt", wms["geopunt"], layer_name, env))

CallGetElevation ==
    \E env \in FreshElevationEnvs :
        /\ ret' = [op |-> "get_elevation", env |-> env] @@ GetElevation(env)
        /\ UNCHANGED <<data, content, wms>>

\* the coordinates and reference systems get_profile_from_dov is called
\* with: those of the docstring, and a point in degrees
Locations ==
    {[x |-> 247172, y |-> 204590, crs |-> "EPSG:31370"], [x |-> 4, y |-> 51, crs |-> "EPSG:4326"]}

\* nothing is asked of the services when DOVClient() raises
QuietProfile ==
    [connect |-> ConnectError, gfi |-> "raise", read |-> "ok", payload |-> [json |-> "malformed"],
     elevation |-> QuietElevation]

CallGetProfileFromDov ==
    \E at \in Locations, fetch_elevation \in BOOLEAN, client \in {"ok", "raise"} :
        \E env \in IF client = "ok" THEN ProfileEnvs(fetch_elevation) ELSE {QuietProfile} :
            /\ ret' = [op |-> "get_profile_from_dov", x |-> at.x, y |-> at.y, crs |-> at.crs,
                       fetch_elevation |-> fetch_elevation, client |-> client, env |-> env]
                      @@ GetProfileFromDov(at.x, at.y, at.crs, fetch_elevation, client, env)
            /\ UNCHANGED <<data, content, wms>>

Next ==
    \/ \E c \in Clients : SetWms(c)
    \/ \E c \in Clients : GetWms(c)
    \/ \E c \in Clients : CallListWmsLayers(c)
    \/ \E c \in Clients : CallCheckLayerExists(c)
    \/ CallFetchProfile
    \/ CallFetchElevation
    \/ CallGetElevation

Spec == Init /\ [][Next]_vars

\* Specification of the module-level functions, which make their own client
\* for every call and leave the clients of the caller alone
NextFunctions == CallGetProfileFromDov \/ CallGetElevation

SpecFunctions == Init /\ [][NextFunctions]_vars

----------------------------------------------------------------------------
\* Vocabulary of the claims about the DOV parser, stated on the payload
\* itself

Companion == "_betrouwbaarheid"

\* the keys of the first feature that do not carry the companion suffix
BandKeys(d) ==
    {d.features[1][i].key : i \in {j \in 1..Len(d.features[1]) :
        LET k == d.features[1][j].key IN k[Len(k)] # Companion}}

\* where key k stands in the first feature
PositionOf(d, k) == CHOOSE i \in 1..Len(d.features[1]) : d.features[1][i].key = k

FixedKeys ==
    {<<"_0_-_10_cm">>, <<"_10_-_30_cm">>, <<"_30_-_60_cm">>, <<"_60_-_100_cm">>, <<"_100_-_150_cm">>}

\* (layer_top, layer_bottom, name) of a key of the fixed mapping
FixedTriple(k) ==
    CASE k = <<"_0_-_10_cm">> -> <<0, 10, "Layer_0-10cm">>
      [] k = <<"_10_-_30_cm">> -> <<10, 30, "Layer_10-30cm">>
      [] k = <<"_30_-_60_cm">> -> <<30, 60, "Layer_30-60cm">>
      [] k = <<"_60_-_100_cm">> -> <<60, 100, "Layer_60-100cm">>
      [] k = <<"_100_-_150_cm">> -> <<100, 150, "Layer_100-150cm">>

TripleOf(layer) == <<layer.layer_top, layer.layer_bottom, layer.name>>

HasFeatures(d) == d.json = "ok" /\ d.has_features /\ d.features # <<>>

\* three features; every band key of the first is in the fixed mapping and
\* has its value and its companion on all three
ValidPayload(d) ==
    /\ HasFeatures(d)
    /\ Len(d.features) = 3
    /\ \A k \in BandKeys(d) :
        /\ k \in FixedKeys
        /\ \A f \in 1..3 : HasKey(d.features[f], k) /\ HasKey(d.features[f], k \o <<Companion>>)

ParsedTexture == ret.op = "_parse_texture_response"

ReturnedLayers == ret.res.value.layers

\* C1: a valid three-feature payload whose first feature has N band keys
\* parses to exactly N layers, one per band key, each with the fixed
\* (top, bottom, name) of its key and top < bottom; no layer stands for a
\* band the payload does not have.
C1_OneLayerPerBandKey ==
    (ParsedTexture /\ ValidPayload(data)) =>
        /\ ret.res.outcome = "return"
        /\ Len(ReturnedLayers) = Cardinality(BandKeys(data))
        /\ \A k \in BandKeys(data) :
            Cardinality({i \in 1..Len(ReturnedLayers) : TripleOf(ReturnedLayers[i]) = FixedTriple(k)}) = 1
        /\ \A i \in 1..Len(ReturnedLayers) :
            /\ ReturnedLayers[i].layer_top < ReturnedLayers[i].layer_bottom
            /\ \E k \in BandKeys(data) : TripleOf(ReturnedLayers[i]) = FixedTriple(k)

\* a valid payload with MaxKeys-many bands, the deepest among them, parsed
C1_Witness ==
    /\ ParsedTexture /\ ValidPayload(data)
    /\ Cardinality(BandKeys(data)) >= 3
    /\ <<"_100_-_150_cm">> \in BandKeys(data)
    /\ ret.res.outcome = "return" /\ Len(ReturnedLayers) >= 3

\* the band key a returned layer was built from
KeyOfLayer(layer) == CHOOSE k \in FixedKeys : FixedTriple(k)[3] = layer.name

\* C2: in every returned layer for band key k, clay/silt/sand content is
\* the value of k in feature 0/1/2, each uncertainty is the value of the
\* companion of k on that same feature, and each source is the fixed string
\* of the clay, silt or sand layer.
C2_ContentsAndMetadata ==
    (ParsedTexture /\ HasFeatures(data) /\ ret.res.outcome = "return") =>
        \A i \in 1..Len(ReturnedLayers) :
            LET layer == ReturnedLayers[i]
                k == KeyOfLayer(layer)
                ci == k \o <<Companion>>
            IN  /\ layer.clay_content = Lookup(data.features[1], k)
                /\ layer.silt_content = Lookup(data.features[2], k)
                /\ layer.sand_content = Lookup(data.features[3], k)
                /\ layer.metadata.clay_content.uncertainty = Lookup(data.features[1], ci)
                /\ layer.metadata.silt_content.uncertainty = Lookup(data.features[2], ci)
                /\ layer.metadata.sand_content.uncertainty = Lookup(data.features[3], ci)
                /\ layer.metadata.clay_content.source
                     = "DOV WMS, bdbstat:fractie_klei_basisdata_bodemkartering"
                /\ layer.metadata.silt_content.source
                     = "DOV WMS, bdbstat:fractie_leem_basisdata_bodemkartering"
                /\ layer.metadata.sand_content.source
                     = "DOV WMS, bdbstat:fractie_zand_basisdata_bodemkartering"

\* two layers returned, under the second valuation of the numbers
C2_Witness ==
    /\ ParsedTexture /\ HasFeatures(data) /\ ret.res.outcome = "return"
    /\ Len(ReturnedLayers) >= 2
    /\ ReturnedLayers[1].clay_content >= 1000
    /\ ReturnedLayers[1].sand_content # ReturnedLayers[1].clay_content

\* C3: the returned layers stand in the order of their band keys in the
\* first feature, whatever that order is.
C3_PayloadKeyOrder ==
    (ParsedTexture /\ HasFeatures(data) /\ ret.res.outcome = "return") =>
        \A i, j \in 1..Len(ReturnedLayers) :
            i < j => PositionOf(data, KeyOfLayer(ReturnedLayers[i]))
                        < PositionOf(data, KeyOfLayer(ReturnedLayers[j]))

\* a payload whose keys are not in depth order: a deeper layer is returned
\* before a shallower one
C3_Witness ==
    /\ ParsedTexture /\ HasFeatures(data) /\ ret.res.outcome = "return"
    /\ Len(ReturnedLayers) >= 2
    /\ ReturnedLayers[1].layer_top > ReturnedLayers[2].layer_top

ParsedTextureFeatureInfo ==
    /\ ret.op = "parse_feature_info"
    /\ ret.content_type = "application/json"
    /\ ret.query_type = "texture"

\* C4: parse_feature_info for JSON texture content whose feature list is
\* empty or missing returns a profile with no layers, and raises nothing.
C4_EmptyFeatures ==
    (ParsedTextureFeatureInfo /\ data.json = "ok" /\ (~data.has_features \/ data.features = <<>>)) =>
        ret.res = [outcome |-> "return", value |-> [type |-> "dict", layers |-> <<>>]]

\* the payload {"features": []} parsed through parse_feature_info
C4_Witness ==
    /\ ParsedTextureFeatureInfo
    /\ data.json = "ok" /\ data.has_features /\ data.features = <<>>
    /\ ret.res.outcome = "return"

\* a band key of the first feature that the mapping does not know, or that
\* lacks its companion on one of the three features
StructurallyUnexpected(d) ==
    \E k \in BandKeys(d) :
        \/ k \notin FixedKeys
        \/ \E f \in 1..3 : f > Len(d.features) \/ ~HasKey(d.features[f], k \o <<Companion>>)

\* C5: the parser raises, and returns no profile, whenever a band key of the
\* first feature is not in the fixed mapping or lacks its companion on one
\* of the three features.
C5_RaisesOnUnexpected ==
    (ParsedTexture /\ HasFeatures(data) /\ StructurallyUnexpected(data)) =>
        ret.res.outcome = "raise"

\* an unknown band after two good ones: the parser raised
C5_Witness ==
    /\ ParsedTexture /\ HasFeatures(data) /\ Len(data.features) = 3
    /\ Len(data.features[1]) >= 6
    /\ data.features[1][1].key \in FixedKeys
    /\ \E k \in BandKeys(data) : k \notin FixedKeys /\ PositionOf(data, k) > 1
    /\ ret.res.outcome = "raise"

----------------------------------------------------------------------------
\* Specification of the Geopunt parser: a text is drawn, and the parser is
\* applied to it directly or through parse_feature_info.

ElevationQueryTypes == {"elevation", "properties"}

InitElevation ==
    /\ content \in Texts
    /\ data = [json |-> "malformed"]
    /\ wms = [c \in Clients |-> None]
    /\ ret = NoCall

CallParseElevationResponse ==
    /\ ret' = [op |-> "_parse_elevation_response", res |-> ParseElevationResponse(content)]
    /\ UNCHANGED <<data, content, wms>>

CallGeopuntParseFeatureInfo ==
    \E qt \in ElevationQueryTypes :
        /\ ret' = [op |-> "parse_feature_info", query_type |-> qt,
                   res |-> GeopuntParseFeatureInfo(content, qt)]
        /\ UNCHANGED <<data, content, wms>>

NextElevation == CallParseElevationResponse \/ CallGeopuntParseFeatureInfo

SpecElevation == InitElevation /\ [][NextElevation]_vars

----------------------------------------------------------------------------
\* Vocabulary of the claims about the Geopunt parser, stated on the text
\* itself

Semicolons(t) == {i \in 1..Len(t) : t[i] = ";"}

FieldCount(t) == Cardinality(Semicolons(t)) + 1

\* the text between the second semicolon and the next one (or the end)
ThirdField(t) ==
    LET second == CHOOSE i \in Semicolons(t) : Cardinality({j \in Semicolons(t) : j < i}) = 1
        later == {j \in Semicolons(t) : j > second}
        stop == IF later = {} THEN Len(t) + 1 ELSE CHOOSE j \in later : \A l \in later : j =< l
    IN  SubSeq(t, second + 1, stop - 1)

\* f without the blanks around it
Trimmed(f) ==
    LET inked == {i \in 1..Len(f) : f[i] # " "}
    IN  IF inked = {} THEN <<>>
        ELSE SubSeq(f, CHOOSE i \in inked : \A j \in inked : i =< j,
                       CHOOSE i \in inked : \A j \in inked : i >= j)

Digits == {"0", "1", "2", "3", "4", "5", "6", "7", "8", "9"}

Unsigned(t) == IF t # <<>> /\ t[1] \in {"-", "+"} THEN SubSeq(t, 2, Len(t)) ELSE t

Points(t) == {i \in 1..Len(t) : t[i] = "."}

\* a decimal numeral: an optional sign, then digits with at most one point
\* among them, and at least one digit
IsNumeral(t) ==
    LET u == Unsigned(t)
    IN  /\ \A i \in 1..Len(u) : u[i] \in Digits \cup {"."}
        /\ Cardinality(Points(u)) =< 1
        /\ Len(u) > Cardinality(Points(u))

\* number of digits after the point
FractionLength(t) ==
    LET u == Unsigned(t) IN IF Points(u) = {} THEN 0 ELSE Len(u) - (CHOOSE i \in Points(u) : TRUE)

RECURSIVE DigitSum(_, _)
\* the numeral u read without its point, as the sum of digit times power of
\* ten, from index i on
DigitSum(u, i) ==
    IF i > Len(u) THEN 0
    ELSE IF u[i] = "." THEN DigitSum(u, i + 1)
    ELSE LET after == Cardinality({j \in (i + 1)..Len(u) : u[j] # "."})
         IN (CHOOSE d \in 0..9 : Digits \cap {ToString(d)} = {u[i]}) * Pow10(after) + DigitSum(u, i + 1)

\* v is the number the numeral t denotes: v.num / 10^v.scale is the digit sum
\* over 10^(number of digits after the point)
Denotes(t, v) ==
    /\ v.type = "float"
    /\ LET n == (IF t[1] = "-" THEN -1 ELSE 1) * DigitSum(Unsigned(t), 1)
           k == FractionLength(t)
       IN  IF v.scale =< k THEN v.num * Pow10(k - v.scale) = n
           ELSE v.num = n * Pow10(v.scale - k)

ParsedElevation == ret.op = "_parse_elevation_response"

\* C6: for a text of at least three semicolon-delimited fields whose third
\* field, trimmed, is a number, the parser returns exactly that number,
\* whatever the other fields are; the documented response yields 32.360001.
C6_ThirdFieldNumber ==
    ParsedElevation =>
        /\ (FieldCount(content) >= 3 /\ IsNumeral(Trimmed(ThirdField(content)))) =>
              /\ ret.res.outcome = "return"
              /\ Denotes(Trimmed(ThirdField(content)), ret.res.value)
        /\ content = DocExample =>
              ret.res = [outcome |-> "return", value |-> [type |-> "float", num |-> 32360001, scale |-> 6]]

\* the number 3 in the third field, after a blank
C6_Witness ==
    /\ ParsedElevation
    /\ FieldCount(content) >= 3
    /\ Len(content) =< MaxLen
    /\ IsNumeral(Trimmed(ThirdField(content)))
    /\ ThirdField(content)[1] = " "
    /\ ret.res.outcome = "return" /\ ret.res.value # None
    /\ ret.res.value.num = 3

\* C7: for a text of fewer than three fields, or whose third field is not a
\* number (an empty one included), the parser returns None and does not
\* raise.
C7_NoneOnUnparseable ==
    (ParsedElevation /\ (FieldCount(content) < 3 \/ ~IsNumeral(Trimmed(ThirdField(content))))) =>
        ret.res = [outcome |-> "return", value |-> None]

\* three fields, the third one blank
C7_Witness ==
    /\ ParsedElevation
    /\ FieldCount(content) >= 3
    /\ ThirdField(content) # <<>> /\ Trimmed(ThirdField(content)) = <<>>
    /\ ret.res = [outcome |-> "return", value |-> None]

----------------------------------------------------------------------------
\* Vocabulary of the claims about fetch_profile

FetchedProfile == ret.op = "fetch_profile"

RequiredLayers ==
    {"bdbstat:fractie_klei_basisdata_bodemkartering",
     "bdbstat:fractie_leem_basisdata_bodemkartering",
     "bdbstat:fractie_zand_basisdata_bodemkartering"}

\* the client is connected, to a service that advertises the layers in l
Advertised(l) == wms["dov"] # None /\ wms["dov"].contents = l

Issued(fn) == \E i \in 1..Len(ret.calls) : ret.calls[i].fn = fn

ReturnedNone == ret.res = [outcome |-> "return", value |-> None]

\* C8: when a required layer is missing from the layers the connected
\* service advertises, whichever ones are missing, fetch_profile returns
\* None and issues neither a GetFeatureInfo query nor an elevation fetch.
C8_MissingLayerNoQuery ==
    \A l \in SUBSET RequiredLayers :
        (FetchedProfile /\ Advertised(l) /\ l # RequiredLayers) =>
            /\ ReturnedNone
            /\ ~Issued("getfeatureinfo")
            /\ ~Issued("get_elevation")

\* only the sand layer is missing, on a service the call connected to
C8_Witness ==
    /\ FetchedProfile
    /\ Advertised(RequiredLayers \ {"bdbstat:fractie_zand_basisdata_bodemkartering"})
    /\ Issued("WebMapService")
    /\ ret.fetch_elevation
    /\ ReturnedNone

\* the response cannot be parsed: not JSON, or a band key that is unknown or
\* lacks a companion
Unparseable(d) == d.json = "malformed" \/ (HasFeatures(d) /\ StructurallyUnexpected(d))

\* C9: when all required layers exist and the GetFeatureInfo call, the read
\* of the response or its parsing fails, fetch_profile returns None and
\* raises nothing.
C9_QueryFailureIsNone ==
    (/\ FetchedProfile /\ Advertised(RequiredLayers)
     /\ \/ ret.env.gfi = "raise"
        \/ ret.env.read = "raise"
        \/ Unparseable(ret.env.payload))
    => ReturnedNone

\* the query was issued and answered, and the answer has an unknown band
C9_Witness ==
    /\ FetchedProfile /\ Advertised(RequiredLayers)
    /\ ret.env.gfi = "ok" /\ ret.env.read = "ok"
    /\ ret.env.payload.json = "ok" /\ Unparseable(ret.env.payload)
    /\ Issued("getfeatureinfo")
    /\ ReturnedNone

\* the elevation sub-fetch returned no result, or failed with an error
ElevationFailed ==
    \/ ret.elevation.outcome = "raise"
    \/ ret.elevation = [outcome |-> "return", value |-> None]

\* C10: with fetch_elevation set, when the texture query and its parsing
\* succeed and the elevation sub-fetch fails in any way, fetch_profile
\* returns a profile with the parsed layers and no elevation; it does not
\* return None.
C10_ElevationFailureKeepsLayers ==
    (/\ FetchedProfile /\ ret.fetch_elevation
     /\ ret.texture.outcome = "return"
     /\ ElevationFailed)
    => /\ ret.res.outcome = "return"
       /\ ret.res.value # None
       /\ ret.res.value.layers = ret.texture.value.layers
       /\ ret.res.value.elevation = None

----------------------------------------------------------------------------
\* Vocabulary of the claims about the elevation in a profile

\* the text the elevation service answered, and its third field trimmed
ElevationText == ret.env.elevation.text

ElevationNumeral == Trimmed(ThirdField(ElevationText))

\* the elevation service was connected, advertises the default layer,
\* answered the query, and its answer carries a number in the third field
ElevationObtained ==
    /\ ret.env.elevation.connect # ConnectError
    /\ "DHMVII_DTM_1m" \in ret.env.elevation.connect.contents
    /\ ret.env.elevation.gfi = "ok"
    /\ ret.env.elevation.read = "ok"
    /\ ret.env.elevation.decode = "ok"
    /\ FieldCount(ElevationText) >= 3
    /\ IsNumeral(ElevationNumeral)

\* C11: with fetch_elevation set, when the texture is parsed and the
\* elevation service yields the number v, fetch_profile returns a profile
\* whose elevation field is the float v itself, not a record around it.
C11_ElevationIsNumber ==
    (/\ FetchedProfile /\ ret.fetch_elevation
     /\ ret.texture.outcome = "return"
     /\ ElevationObtained)
    => /\ ret.res.outcome = "return"
       /\ ret.res.value # None
       /\ Denotes(ElevationNumeral, ret.res.value.elevation)

----------------------------------------------------------------------------
\* Vocabulary of the claims about fetch_elevation

FetchedElevation == ret.op = "fetch_elevation"

\* the Geopunt client is connected, to a service that advertises the layer
\* the call asked for
ElevationLayerAdvertised ==
    wms["geopunt"] # None /\ ret.layer_name \in wms["geopunt"].contents

ElevationLayerMissing ==
    wms["geopunt"] # None /\ ret.layer_name \notin wms["geopunt"].contents

\* the query, the read and the decoding of the response all went through
Answered(env) == env.gfi = "ok" /\ env.read = "ok" /\ env.decode = "ok"

\* a JSON response without features
EmptyFeatureSet(d) == d.json = "ok" /\ ~HasFeatures(d)

\* a text the elevation parser finds no number in
NoElevationIn(t) == FieldCount(t) < 3 \/ ~IsNumeral(Trimmed(ThirdField(t)))

\* C12: every no-data condition ends in None.  fetch_profile returns None
\* for an empty feature set as it does for a missing layer or a failed
\* query, and fetch_elevation returns None for a text without an elevation
\* as it does for a missing layer or a failed query.
C12_NoDataIsNone ==
    /\ (/\ FetchedProfile /\ Advertised(RequiredLayers)
        /\ \/ ret.env.gfi = "raise"
           \/ ret.env.read = "raise"
           \/ EmptyFeatureSet(ret.env.payload))
       => ReturnedNone
    /\ (FetchedProfile /\ \E l \in SUBSET RequiredLayers : l # RequiredLayers /\ Advertised(l))
       => ReturnedNone
    /\ (/\ FetchedElevation /\ ElevationLayerAdvertised
        /\ (~Answered(ret.env) \/ NoElevationIn(ret.env.text)))
       => ReturnedNone
    /\ (FetchedElevation /\ ElevationLayerMissing) => ReturnedNone

\* the call ran on a client without connection and the attempt to connect
\* failed: the client is still without connection after the call
ConnectFailed ==
    /\ ret.env.connect = ConnectError
    /\ wms[ret.client] = None
    /\ Issued("WebMapService")

\* C13: when fetch_profile or fetch_elevation runs on a client that has no
\* connection and connecting fails, the call returns None; it does not
\* raise.
C13_ConnectFailureIsNone ==
    ((FetchedProfile \/ FetchedElevation) /\ ConnectFailed) => ReturnedNone

\* C14: when the layer asked for is not among the layers the connected
\* service advertises, fetch_elevation returns None and issues no
\* GetFeatureInfo query; when the layer is advertised and the query, the
\* read or the decoding of the response fails, it returns None and raises
\* nothing.
C14_ElevationCheckThenQuery ==
    FetchedElevation =>
        /\ ElevationLayerMissing => (ReturnedNone /\ ~Issued("getfeatureinfo"))
        /\ (ElevationLayerAdvertised /\ ~Answered(ret.env)) => ReturnedNone

\* a client that was connected by this call, to a service without the
\* layer
C14_Witness ==
    /\ FetchedElevation
    /\ ElevationLayerMissing
    /\ ret.layer_name = "DHMVII_DTM_1m"
    /\ Issued("WebMapService")
    /\ ReturnedNone

----------------------------------------------------------------------------
\* Vocabulary of the claim about get_profile_from_dov

GotProfileFromDov == ret.op = "get_profile_from_dov"

\* C15: get_profile_from_dov raises nothing.  It returns None when
\* DOVClient() or fetch_profile raises, and what fetch_profile returned
\* otherwise; fetch_profile is called with the point (x, y), the crs and
\* the fetch_elevation flag of the call, and the elevation is fetched only
\* when the flag is set.
C15_NeverRaises ==
    GotProfileFromDov =>
        /\ ret.res.outcome = "return"
        /\ ret.client = "raise" => ReturnedNone
        /\ ret.client = "ok" =>
              /\ ret.profile.outcome = "raise" => ReturnedNone
              /\ ret.profile.outcome = "return" => ret.res = ret.profile
              /\ ret.args.location.x = ret.x /\ ret.args.location.y = ret.y
              /\ ret.args.crs = ret.crs
              /\ ret.args.fetch_elevation = ret.fetch_elevation
              /\ Issued("get_elevation") => ret.fetch_elevation
              /\ (ret.fetch_elevation /\ ret.texture.outcome = "return") => Issued("get_elevation")

\* fetch_profile raised, the soil service being out of reach, and the call
\* returned None
C15_Witness ==
    /\ GotProfileFromDov
    /\ ret.client = "ok"
    /\ ret.crs = "EPSG:4326"
    /\ ret.profile.outcome = "raise"
    /\ Issued("WebMapService")
    /\ ReturnedNone

----------------------------------------------------------------------------
\* Vocabulary of the claims about the connection and the queries of a call

\* the operations of a client that use its connection
NeedsConnection == {"wms", "list_wms_layers", "check_layer_exists", "fetch_profile", "fetch_elevation"}

\* number of calls of fn that the call with outcome r made on behalf of
\* client c
CallsOf(r, fn, c) ==
    IF r.op \in {"none", "wms.setter"} THEN 0
    ELSE Cardinality({i \in 1..Len(r.calls) : r.calls[i] = [fn |-> fn, client |-> c]})

\* C17: in every step, for each client: the constructor of the service is
\* called at most once, only by an operation on that client that uses the
\* connection, and only when the client has no connection; a connection the
\* client has, injected or not, is kept by every operation but the setter;
\* and a client comes to a connection only through the setter or through
\* one successful call of the constructor.
C17_LazySingleConnection ==
    [][\A c \in Clients :
        /\ CallsOf(ret', "WebMapService", c) =< 1
        /\ CallsOf(ret', "WebMapService", c) = 1 =>
              (ret'.op \in NeedsConnection /\ ret'.client = c /\ wms[c] = None)
        /\ (wms[c] # None /\ ret'.op # "wms.setter") => wms'[c] = wms[c]
        /\ (wms[c] = None /\ wms'[c] # None /\ ret'.op # "wms.setter") =>
              (CallsOf(ret', "WebMapService", c) = 1 /\ ~wms'[c].injected)
        /\ (wms[c] = None /\ ret'.op \in NeedsConnection /\ ret'.client = c) =>
              CallsOf(ret', "WebMapService", c) = 1
      ]_vars

\* fetch_profile ran its query on a connection made by an earlier call: it
\* returned a profile without calling the constructor
C17_Witness ==
    /\ FetchedProfile
    /\ wms["dov"] # None /\ ~wms["dov"].injected
    /\ CallsOf(ret, "WebMapService", "dov") = 0
    /\ Issued("getfeatureinfo")
    /\ ret.res.outcome = "return" /\ ret.res.value # None

\* the last call the operation made
LastCall == ret.calls[Len(ret.calls)]

\* C18: one call of fetch_profile issues at most one GetFeatureInfo query on
\* the soil service and at most one elevation fetch, which issues at most
\* one query of its own; one call of fetch_elevation issues at most one
\* query.  When the query was issued and it or the reading of its response
\* failed, the call returns None and the failed query is the last call it
\* made.
C18_NoRetry ==
    /\ FetchedProfile =>
          /\ CallsOf(ret, "getfeatureinfo", "dov") =< 1
          /\ CallsOf(ret, "get_elevation", "dov") =< 1
          /\ CallsOf(ret, "getfeatureinfo", "get_elevation") =< 1
          /\ (Issued("getfeatureinfo") /\ (ret.env.gfi = "raise" \/ ret.env.read = "raise")) =>
                (ReturnedNone /\ LastCall = [fn |-> "getfeatureinfo", client |-> "dov"])
    /\ FetchedElevation =>
          /\ CallsOf(ret, "getfeatureinfo", "geopunt") =< 1
          /\ (Issued("getfeatureinfo") /\ ~Answered(ret.env)) =>
                (ReturnedNone /\ LastCall = [fn |-> "getfeatureinfo", client |-> "geopunt"])

\* fetch_profile, asked for the elevation too, on a service whose query
\* fails
C18_Witness ==
    /\ FetchedProfile /\ ret.fetch_elevation
    /\ Advertised(RequiredLayers)
    /\ ret.env.gfi = "raise"
    /\ CallsOf(ret, "getfeatureinfo", "dov") = 1
    /\ ReturnedNone

====
